---- MODULE Spec2Model ----
(***************************************************************************)
(* WebVTTDocumentBackend.convert (docling/backend/webvtt_backend.py): the  *)
(* walk of a cue payload tree by _extract_component_text and the emission  *)
(* of the paragraphs it builds into the document body.                     *)
(*                                                                         *)
(* The payload of a cue is revealed node by node while it is walked: each  *)
(* Component step draws the next node of the sequence being iterated, each *)
(* Return step ends the sequence of the innermost span.  `payload` records *)
(* the nodes drawn so far in document order with their nesting depth,      *)
(* which determines the tree.                                              *)
(*                                                                         *)
(* Python objects that are mutated in place (Formatting, the classes dict, *)
(* its sets, the lang set) live in `heap`; a run holds references to them. *)
(***************************************************************************)
EXTENDS Integers, Sequences, FiniteSets, TLC

\* ---------------------------------------------------------------- bounds
\* nodes of one cue payload, attribute-rich alphabet (Spec)
MaxNodes == 3
\* nodes of one cue payload, small alphabet with terminators (SpecDeep)
DeepNodes == 5
\* nodes of one cue payload and number of cue blocks (SpecMulti)
MultiNodes == 2
MultiCues == 2
\* nodes of one cue payload, spans without terminators (SpecNest)
NestNodes == 4

\* ------------------------------------------------------- optional values
None == <<>>
Some(x) == <<x>>

\* ----------------------------------------------------------- input data
SpanKinds == {"b", "i", "u", "lang", "v"}

Node(kind, text, annotation, classes, terminator) ==
  [kind |-> kind, text |-> text, annotation |-> annotation,
   classes |-> classes, terminator |-> terminator]

\* the frame-local `comp` before the loop has bound it
NoComp == Node("none", "", "", {}, FALSE)

\* attribute-rich nodes: every span kind, classes, two voices, two languages
RichNodes ==
  { Node("text", t, "", {}, FALSE) : t \in {"a", "b"} }
  \cup { Node("b", "", "", {"x"}, FALSE) }
  \cup { Node(k, "", "", {"x"}, FALSE) : k \in {"i", "u"} }
  \cup { Node("lang", "", "en", {"y"}, FALSE), Node("lang", "", "de", {}, FALSE) }
  \cup { Node("v", "", "Alice", {}, FALSE), Node("v", "", "Bob", {"x"}, FALSE) }
  \cup { Node("text", "a", "", {}, TRUE), Node("b", "", "", {"y"}, TRUE) }

\* small alphabet: text and one span kind, each with and without terminator
PlainNodes ==
  { Node("text", t, "", {}, term) : t \in {"a", "b"}, term \in BOOLEAN }
  \cup { Node("b", "", "", {}, term) : term \in BOOLEAN }

\* spans of every inheriting kind, one text, no terminator
SpanNodes ==
  { Node("text", "a", "", {}, FALSE),
    Node("b", "", "", {"x"}, FALSE), Node("i", "", "", {"y"}, FALSE),
    Node("u", "", "", {}, FALSE), Node("lang", "", "en", {"y"}, FALSE) }

\* the nodes of the cues of a file of several cues
CueNodes ==
  { Node("text", "a", "", {}, term) : term \in BOOLEAN }
  \cup { Node("i", "", "", {}, FALSE) }

\* the k-th cue block of the file: identifier and timings (start <= end).
\* The code copies them and never compares them: the first block is fixed, the
\* second starts before it or after it, with or without identifier, and the
\* later ones follow.
Blocks(k) ==
  CASE k = 1 -> { [identifier |-> Some("1"), start |-> 2, end |-> 3] }
    [] k = 2 -> { [identifier |-> None, start |-> 1, end |-> 2],
                  [identifier |-> Some("2"), start |-> 3, end |-> 3] }
    [] OTHER -> { [identifier |-> None, start |-> k + 2, end |-> k + 3] }

VARIABLES
  lim,         \* the bounds of this run: [nodes, cues, alphabet]
  pc,          \* position in convert: "blocks" | "flatten" | "emit" | "done" | "raised"
  cue_text,    \* list[AnnotatedPar]
  parent_idx,  \* int
  stack,       \* frames of _extract_component_text, innermost last
  heap,        \* the mutable objects the runs reference
  block,       \* the cue block of the current loop iteration
  nblocks,     \* cue blocks taken from vtt.cue_blocks so far
  par_i,       \* position of `for par in cue_text`
  doc,         \* items appended to the document body
  payload,     \* the nodes of the current cue drawn so far (document order)
  solo         \* the same cue walked by a converter that saw no earlier cue

vars == <<lim, pc, cue_text, parent_idx, stack, heap, block, nblocks, par_i,
          doc, payload, solo>>

\* ------------------------------------------------------------ AnnotatedText
\* AnnotatedText(text=text): the default factories build a fresh dict and set
AnnotatedText(h, text) ==
  [item |-> [text |-> text, voice |-> None, formatting |-> None,
             classes |-> Len(h) + 1, lang |-> Len(h) + 2],
   heap |-> h \o << <<>>, {} >>]

\* copy_meta as it would be with classes=self.classes: the copy shares the dict
copy_meta_SharedClasses(self, h, text) ==
  LET h1 == IF self.formatting = None THEN h
            ELSE Append(h, h[self.formatting[1]])
      fmt == IF self.formatting = None THEN None ELSE Some(Len(h1))
      h2 == Append(h1, h1[self.lang])
  IN [item |-> [text |-> text, voice |-> self.voice, formatting |-> fmt,
                classes |-> self.classes, lang |-> Len(h2)],
      heap |-> h2]

\* copy_meta as it would be without lang=self.lang.copy(): the copy starts
\* with the default empty set
copy_meta_NoLang(self, h, text) ==
  LET h1 == IF self.formatting = None THEN h
            ELSE Append(h, h[self.formatting[1]])
      fmt == IF self.formatting = None THEN None ELSE Some(Len(h1))
      d == h1[self.classes]
      n == Len(d)
      sets == [i \in 1..n |-> h1[d[i].value]]
      dict == [i \in 1..n |-> [key |-> d[i].key, value |-> Len(h1) + i]]
      h2 == (h1 \o sets) \o <<dict>>
      h3 == Append(h2, {})
  IN [item |-> [text |-> text, voice |-> self.voice, formatting |-> fmt,
                classes |-> Len(h2), lang |-> Len(h3)],
      heap |-> h3]

\* AnnotatedText.copy_meta: formatting.model_copy(), copy.deepcopy(classes),
\* lang.copy()
copy_meta(self, h, text) ==
  LET h1 == IF self.formatting = None THEN h
            ELSE Append(h, h[self.formatting[1]])
      fmt == IF self.formatting = None THEN None ELSE Some(Len(h1))
      d == h1[self.classes]
      n == Len(d)
      sets == [i \in 1..n |-> h1[d[i].value]]
      dict == [i \in 1..n |-> [key |-> d[i].key, value |-> Len(h1) + i]]
      h2 == (h1 \o sets) \o <<dict>>
      h3 == Append(h2, h2[self.lang])
  IN [item |-> [text |-> text, voice |-> self.voice, formatting |-> fmt,
                classes |-> Len(h2), lang |-> Len(h3)],
      heap |-> h3]

AnnotatedPar(items) == [items |-> items]

Formatting(bold, italic, underline) ==
  [bold |-> bold, italic |-> italic, underline |-> underline]

\* ------------------------------------------------------------- walk state
\* a walk state is [cue_text, parent_idx, stack, heap, raised]
Frame(par) == [par |-> par, current_parent |-> -1, comp |-> NoComp]

Top(w) == w.stack[Len(w.stack)]

\* Python list indexing: i is valid when -len <= i < len
InRange(items, i) == -Len(items) <= i /\ i < Len(items)
At(items, i) == IF i >= 0 THEN i + 1 ELSE Len(items) + i + 1

\* entry of _extract_component_text: lines 129-131
Call(w) ==
  LET ct == IF w.cue_text = <<>> THEN <<AnnotatedPar(<<>>)>> ELSE w.cue_text
  IN [w EXCEPT !.cue_text = ct, !.stack = Append(@, Frame(Len(ct)))]

\* lines 133-135 as they would be if the run of a new paragraph were a
\* copy_meta copy of the last run of the paragraph before it
Seed_FromPreviousPar(w) ==
  LET p == Top(w).par
      prev == IF p > 1 THEN w.cue_text[p - 1].items ELSE <<>>
      a == IF prev = <<>> THEN AnnotatedText(w.heap, "")
           ELSE copy_meta(prev[Len(prev)], w.heap, "")
  IN IF w.cue_text[p].items = <<>>
     THEN [w EXCEPT !.cue_text[p].items = <<a.item>>, !.heap = a.heap,
                    !.parent_idx = 0]
     ELSE w

\* lines 133-135
Seed(w) ==
  LET p == Top(w).par
      a == AnnotatedText(w.heap, "")
  IN IF w.cue_text[p].items = <<>>
     THEN [w EXCEPT !.cue_text[p].items = <<a.item>>, !.heap = a.heap,
                    !.parent_idx = 0]
     ELSE w

\* lines 136-142 as they would be without the test of line 138: every node
\* gets a copy of the parent run
Current_AlwaysBranch(w) ==
  LET p == Top(w).par
      items == w.cue_text[p].items
      k == At(items, w.parent_idx)
      c == copy_meta(items[k], w.heap, "")
  IN [w |-> [w EXCEPT !.cue_text[p].items = Append(items, c.item),
                      !.heap = c.heap],
      cur |-> Len(items) + 1]

\* lines 136-142 as they would be without the copy of lines 139-140: the
\* parent run is always the current one
Current_NeverBranch(w) ==
  [w |-> w, cur |-> At(w.cue_text[Top(w).par].items, w.parent_idx)]

\* lines 136-142; `cur` is the position of current_item in par.items
Current(w) ==
  LET p == Top(w).par
      items == w.cue_text[p].items
      k == At(items, w.parent_idx)
      c == copy_meta(items[k], w.heap, "")
  IN IF items[k].text # ""
     THEN [w |-> [w EXCEPT !.cue_text[p].items = Append(items, c.item),
                           !.heap = c.heap],
           cur |-> Len(items) + 1]
     ELSE [w |-> w, cur |-> k]

\* line 144
AddText(w, cur, text) ==
  [w EXCEPT !.cue_text[Top(w).par].items[cur].text = @ \o text]

\* lines 146-149, 158-161, 170-173
SetFlag(w, cur, kind) ==
  LET p == Top(w).par
      item == w.cue_text[p].items[cur]
      fresh == Formatting(kind = "b", kind = "i", kind = "u")
      old == w.heap[item.formatting[1]]
      new == Formatting(old.bold \/ kind = "b", old.italic \/ kind = "i",
                        old.underline \/ kind = "u")
  IN IF item.formatting = None
     THEN [w EXCEPT !.heap = Append(@, fresh),
                    !.cue_text[p].items[cur].formatting = Some(Len(w.heap) + 1)]
     ELSE [w EXCEPT !.heap[item.formatting[1]] = new]

KeyPos(d, key) ==
  IF \E i \in 1..Len(d) : d[i].key = key
  THEN CHOOSE i \in 1..Len(d) : d[i].key = key
  ELSE 0

\* classes.setdefault(key, set()).update(classes): lines 150-152, 162-164,
\* 174-176, 183-185
UpdateClasses(w, cur, key, classes) ==
  LET item == w.cue_text[Top(w).par].items[cur]
      d == w.heap[item.classes]
      i == KeyPos(d, key)
      h1 == IF i = 0
            THEN [Append(w.heap, {}) EXCEPT
                    ![item.classes] = Append(d, [key |-> key,
                                                 value |-> Len(w.heap) + 1])]
            ELSE w.heap
      ref == IF i = 0 THEN Len(w.heap) + 1 ELSE d[i].value
  IN [w EXCEPT !.heap = [h1 EXCEPT ![ref] = @ \cup classes]]

\* line 182
AddLang(w, cur, annotation) ==
  LET item == w.cue_text[Top(w).par].items[cur]
  IN [w EXCEPT !.heap[item.lang] = @ \cup {annotation}]

\* line 192
SetVoice(w, cur, annotation) ==
  [w EXCEPT !.cue_text[Top(w).par].items[cur].voice = Some(annotation)]

\* the attribute a span puts on current_item
Attribute(w, cur, comp) ==
  CASE comp.kind \in {"b", "i", "u"} ->
         UpdateClasses(SetFlag(w, cur, comp.kind), cur, comp.kind, comp.classes)
    [] comp.kind = "lang" ->
         UpdateClasses(AddLang(w, cur, comp.annotation), cur, "lang", comp.classes)
    [] comp.kind = "v" -> SetVoice(w, cur, comp.annotation)

\* current_parent = parent_idx; parent_idx = len(par.items) - 1; the recursive
\* call on the span's components (lines 153-155 and the like)
Enter(w, comp) ==
  LET n == Len(w.stack)
      p == Top(w).par
  IN Call([w EXCEPT !.stack[n].current_parent = w.parent_idx,
                    !.stack[n].comp = comp,
                    !.parent_idx = Len(w.cue_text[p].items) - 1])

\* lines 197-199 as they would be if a paragraph were appended only when the
\* last one of the list has runs
Terminate_UnlessEmpty(w, comp) ==
  IF comp.terminator /\ w.cue_text[Len(w.cue_text)].items # <<>>
  THEN [w EXCEPT !.cue_text = Append(@, AnnotatedPar(<<>>)),
                 !.stack[Len(w.stack)].par = Len(w.cue_text) + 1]
  ELSE w

\* lines 197-199
Terminate(w, comp) ==
  IF comp.terminator
  THEN [w EXCEPT !.cue_text = Append(@, AnnotatedPar(<<>>)),
                 !.stack[Len(w.stack)].par = Len(w.cue_text) + 1]
  ELSE w

\* one iteration of the loop of line 132 on `comp`, up to the recursive call
\* for a span and to the end of the body for a text span
Iterate(w, comp) ==
  LET s == Seed(w)
      items == s.cue_text[Top(s).par].items
      c == Current(s)
  IN IF ~InRange(items, s.parent_idx)
     THEN [s EXCEPT !.raised = TRUE]
     ELSE IF comp.kind = "text"
          THEN Terminate(AddText(c.w, c.cur, comp.text), comp)
          ELSE Enter(Attribute(c.w, c.cur, comp), comp)

\* position of current_item of that iteration (0 when the lookup raised)
IterateCur(w) ==
  LET s == Seed(w)
  IN IF ~InRange(s.cue_text[Top(s).par].items, s.parent_idx) THEN 0
     ELSE Current(s).cur

\* the recursive call returns: parent_idx = current_parent, then lines 197-199
\* of the caller's iteration
Resume(w) ==
  LET n == Len(w.stack) - 1
      caller == w.stack[n]
  IN Terminate([w EXCEPT !.stack = SubSeq(@, 1, n),
                         !.parent_idx = caller.current_parent],
               caller.comp)

\* lines 122-123
StartState ==
  [cue_text |-> <<>>, parent_idx |-> -1, stack |-> <<>>, heap |-> <<>>,
   raised |-> FALSE]

\* the loop as it would be without line 202: the list of the previous cue stays
NewCueText_Kept(w) == w.cue_text

\* line 202: cue_text = []
NewCueText(w) == <<>>
\* line 203: parent_idx = -1
NewParentIdx(w) == -1

\* lines 202-205: the loop resets the closure variables and calls the walk;
\* the objects of the runs the old list held are unreachable once it is dropped
StartBlock(w) ==
  LET ct == NewCueText(w)
  IN Call([w EXCEPT !.cue_text = ct, !.parent_idx = NewParentIdx(w),
                    !.stack = <<>>,
                    !.heap = IF ct = <<>> THEN <<>> ELSE @])

\* ---------------------------------------------------------------- state
Walk ==
  [cue_text |-> cue_text, parent_idx |-> parent_idx, stack |-> stack,
   heap |-> heap, raised |-> pc = "raised"]

SetWalk(w) ==
  /\ cue_text' = w.cue_text
  /\ parent_idx' = w.parent_idx
  /\ stack' = w.stack
  /\ heap' = w.heap

Limits(nodes, cues, alphabet) ==
  [nodes |-> nodes, cues |-> cues, alphabet |-> alphabet]

InitWith(l) ==
  /\ lim = l
  /\ pc = "blocks"
  /\ cue_text = StartState.cue_text
  /\ parent_idx = StartState.parent_idx
  /\ stack = <<>>
  /\ heap = <<>>
  /\ block = [identifier |-> None, start |-> 0, end |-> 0]
  /\ nblocks = 0
  /\ par_i = 0
  /\ doc = <<>>
  /\ payload = <<>>
  /\ solo = StartState

Init == InitWith(Limits(MaxNodes, 1, RichNodes))

InitDeep == InitWith(Limits(DeepNodes, 1, PlainNodes))

InitMulti == InitWith(Limits(MultiNodes, MultiCues, CueNodes))

InitNest == InitWith(Limits(NestNodes, 1, SpanNodes))

\* `for block in vtt.cue_blocks`: the next block, lines 201-205
BlockStart ==
  /\ pc = "blocks"
  /\ nblocks < lim.cues
  /\ \E b \in Blocks(nblocks + 1) :
       /\ block' = b
       /\ SetWalk(StartBlock(Walk))
       /\ solo' = StartBlock(StartState)
  /\ nblocks' = nblocks + 1
  /\ pc' = "flatten"
  /\ payload' = <<>>
  /\ UNCHANGED <<lim, par_i, doc>>

\* the next component of the sequence the innermost call iterates
Component ==
  /\ pc = "flatten"
  /\ Len(payload) < lim.nodes
  /\ \E comp \in lim.alphabet :
       LET w == Iterate(Walk, comp)
       IN /\ SetWalk(w)
          /\ solo' = Iterate(solo, comp)
          /\ pc' = IF w.raised THEN "raised" ELSE "flatten"
          /\ payload' = Append(payload,
                               [comp |-> comp, depth |-> Len(stack) - 1,
                                par |-> Top(Walk).par, item |-> IterateCur(Walk)])
  /\ UNCHANGED <<lim, block, nblocks, par_i, doc>>

\* the components of the innermost span are exhausted
Return ==
  /\ pc = "flatten"
  /\ Len(stack) > 1
  /\ SetWalk(Resume(Walk))
  /\ solo' = Resume(solo)
  /\ UNCHANGED <<lim, pc, block, nblocks, par_i, doc, payload>>

\* block.payload is exhausted: the call of line 205 returns
FlattenDone ==
  /\ pc = "flatten"
  /\ Len(stack) = 1
  /\ pc' = "emit"
  /\ stack' = <<>>
  /\ solo' = [solo EXCEPT !.stack = <<>>]
  /\ par_i' = 1
  /\ UNCHANGED <<lim, cue_text, parent_idx, heap, block, nblocks, doc, payload>>

\* ------------------------------------------------------------- emission
\* list(s) of a set: its elements once each, in an order the set decides
Lists(S) ==
  { l \in [1..Cardinality(S) -> S] : \A x \in S : \E i \in DOMAIN l : l[i] = x }

RECURSIVE Join(_, _)
\* sep.join(strs)
Join(strs, sep) ==
  IF strs = <<>> THEN ""
  ELSE IF Len(strs) = 1 THEN strs[1]
  ELSE (strs[1] \o sep) \o Join(Tail(strs), sep)

RECURSIVE ClassLists(_, _)
\* [".".join([key, *value]) for key, value in classes.items()]
ClassLists(d, h) ==
  IF d = <<>> THEN { <<>> }
  ELSE { <<Join(<<d[1].key>> \o l, ".")>> \o rest :
           l \in Lists(h[d[1].value]), rest \in ClassLists(Tail(d), h) }

\* the ProvenanceTrack of lines 219-226 and 246-253
ProvenanceTracks(item, h, b) ==
  { [start_time |-> b.start, end_time |-> b.end, identifier |-> b.identifier,
     languages |-> lang, classes |-> classes,
     voice |-> IF item.voice # None /\ item.voice[1] # "" THEN item.voice
               ELSE None] :
      lang \in IF h[item.lang] = {} THEN { None }
               ELSE { Some(l) : l \in Lists(h[item.lang]) },
      classes \in IF h[item.classes] = <<>> THEN { None }
                  ELSE { Some(c) : c \in ClassLists(h[item.classes], h) } }

\* doc.add_text(label=TEXT, text=..., content_layer=BODY, prov=..., parent=...,
\* formatting=...); `src` records which run of which paragraph the call was
\* made for
TextItems(item, h, b, parent, src) ==
  { [label |-> "text", name |-> "", text |-> item.text, content_layer |-> "body",
     parent |-> parent, prov |-> Some(track),
     formatting |-> IF item.formatting = None THEN None
                    ELSE Some(h[item.formatting[1]]),
     src |-> src] :
      track \in ProvenanceTracks(item, h, b) }

\* doc.add_inline_group("WebVTT cue span", content_layer=BODY)
InlineGroup(src) ==
  [label |-> "inline", name |-> "WebVTT cue span", text |-> "",
   content_layer |-> "body", parent |-> None, prov |-> None,
   formatting |-> None, src |-> src]

RECURSIVE Children(_, _, _, _, _)
\* the loop of lines 238-261 from run i on: one child text item per run
Children(items, i, h, b, group) ==
  IF i > Len(items) THEN { <<>> }
  ELSE { <<t>> \o rest : t \in TextItems(items[i], h, b, Some(group), i),
                          rest \in Children(items, i + 1, h, b, group) }

\* lines 207-261 as they would be without the branch of line 209: a group for
\* every paragraph that has runs
ParItems_AlwaysGroup(par, h, b, n) ==
  IF par.items = <<>> THEN { <<>> }
  ELSE { <<InlineGroup(0)>> \o c : c \in Children(par.items, 1, h, b, n + 1) }

\* what one paragraph appends to a document body that holds n items:
\* lines 207-261
ParItems(par, h, b, n) ==
  IF par.items = <<>> THEN { <<>> }
  ELSE IF Len(par.items) = 1
       THEN { <<t>> : t \in TextItems(par.items[1], h, b, None, 1) }
       ELSE { <<InlineGroup(0)>> \o c : c \in Children(par.items, 1, h, b, n + 1) }

\* the body as it would be if a cue were placed by its start time: ahead of
\* the items of a cue that starts later
AddToBody_ByStartTime(body, new, cue, par) ==
  LET tagged == [i \in DOMAIN new |-> [new[i] EXCEPT !.src = <<cue, par, @>>]]
  IN IF /\ body # <<>>
        /\ new # <<>>
        /\ new[Len(new)].prov[1].start_time
             < body[Len(body)].prov[1].start_time
     THEN tagged \o body
     ELSE body \o tagged

\* the document body after the add_text and add_inline_group calls of one
\* paragraph; cue and par say where in the input the calls come from
AddToBody(body, new, cue, par) ==
  body \o [i \in DOMAIN new |-> [new[i] EXCEPT !.src = <<cue, par, @>>]]

\* one iteration of `for par in cue_text`
EmitPar ==
  /\ pc = "emit"
  /\ par_i <= Len(cue_text)
  /\ \E new \in ParItems(cue_text[par_i], heap, block, Len(doc)) :
       doc' = AddToBody(doc, new, nblocks, par_i)
  /\ par_i' = par_i + 1
  /\ UNCHANGED <<lim, pc, cue_text, parent_idx, stack, heap, block, nblocks,
                 payload, solo>>

\* `for par in cue_text` is exhausted: back to the loop over the blocks
EmitDone ==
  /\ pc = "emit"
  /\ par_i > Len(cue_text)
  /\ pc' = "blocks"
  /\ UNCHANGED <<lim, cue_text, parent_idx, stack, heap, block, nblocks, par_i,
                 doc, payload, solo>>

\* vtt.cue_blocks is exhausted: line 263
ConvertReturn ==
  /\ pc = "blocks"
  /\ pc' = "done"
  /\ UNCHANGED <<lim, cue_text, parent_idx, stack, heap, block, nblocks, par_i,
                 doc, payload, solo>>

Next ==
  \/ BlockStart
  \/ Component
  \/ Return
  \/ FlattenDone
  \/ EmitPar
  \/ EmitDone
  \/ ConvertReturn

Spec == Init /\ [][Next]_vars

SpecDeep == InitDeep /\ [][Next]_vars

SpecMulti == InitMulti /\ [][Next]_vars

SpecNest == InitNest /\ [][Next]_vars

\* ------------------------------------------------- reading runs and trees
\* a run's attributes with its references resolved
Bold(item, h) == item.formatting # None /\ h[item.formatting[1]].bold
Italic(item, h) == item.formatting # None /\ h[item.formatting[1]].italic
Underline(item, h) == item.formatting # None /\ h[item.formatting[1]].underline
LangOf(item, h) == h[item.lang]
ClassesOf(item, h, key) ==
  LET d == h[item.classes]
  IN IF KeyPos(d, key) = 0 THEN {} ELSE h[d[KeyPos(d, key)].value]

RunValue(item, h) ==
  [text |-> item.text, voice |-> item.voice,
   bold |-> Bold(item, h), italic |-> Italic(item, h),
   underline |-> Underline(item, h), lang |-> LangOf(item, h),
   classes |-> [key \in SpanKinds |-> ClassesOf(item, h, key)]]

ParValue(par, h) == [i \in 1..Len(par.items) |-> RunValue(par.items[i], h)]

\* the spans of the payload that enclose its k-th node
Enclosing(k) ==
  { j \in 1..(k - 1) :
      /\ payload[j].depth < payload[k].depth
      /\ \A m \in (j + 1)..k : payload[m].depth > payload[j].depth }

EnclosingOf(k, kind) == { j \in Enclosing(k) : payload[j].comp.kind = kind }

TextLeaves == { k \in 1..Len(payload) : payload[k].comp.kind = "text" }

NoTerminator == \A k \in 1..Len(payload) : ~payload[k].comp.terminator

\* the run that received the k-th node's text or attribute
RunOf(k) == cue_text[payload[k].par].items[payload[k].item]

\* the walk of the cue's payload has returned
Flattened == pc = "emit"

\* ---------------------------------------------------------------- claims
\* C1: in a payload without terminators, every run that holds the text of a
\* TextSpan has exactly the bold/italic/underline flags, the languages and the
\* classes (under "b", "i", "u", "lang") of the spans that enclose that
\* TextSpan, and nothing from a span that was closed before it.
C1_RunAttributesFromEnclosingSpans ==
  (Flattened /\ NoTerminator) =>
    \A k \in TextLeaves :
      /\ Bold(RunOf(k), heap) = (EnclosingOf(k, "b") # {})
      /\ Italic(RunOf(k), heap) = (EnclosingOf(k, "i") # {})
      /\ Underline(RunOf(k), heap) = (EnclosingOf(k, "u") # {})
      /\ LangOf(RunOf(k), heap)
           = { payload[j].comp.annotation : j \in EnclosingOf(k, "lang") }
      /\ \A key \in {"b", "i", "u", "lang"} :
           ClassesOf(RunOf(k), heap, key)
             = UNION { payload[j].comp.classes : j \in EnclosingOf(k, key) }

\* C2: the walk never raises: the lookup par.items[parent_idx] is always
\* within bounds.
C2_FlattenerTotal == pc # "raised"

\* C3: once a terminator has been processed (the cue has a second paragraph),
\* no step of the walk appends a run to, or changes a run of, a paragraph
\* other than the last one of the list.
C3_TerminatorClosesParagraph ==
  [][(pc = "flatten" /\ Len(cue_text) >= 2) =>
       \A p \in 1..(Len(cue_text) - 1) :
         ParValue(cue_text'[p], heap') = ParValue(cue_text[p], heap)]_vars

RECURSIVE ConcatRuns(_)
\* the text of all runs, paragraph by paragraph and run by run
ConcatRuns(runs) ==
  IF runs = <<>> THEN "" ELSE runs[1].text \o ConcatRuns(Tail(runs))

RECURSIVE AllRuns(_)
AllRuns(pars) ==
  IF pars = <<>> THEN <<>> ELSE pars[1].items \o AllRuns(Tail(pars))

RECURSIVE ConcatLeaves(_)
\* the text of all TextSpan leaves in document order
ConcatLeaves(nodes) ==
  IF nodes = <<>> THEN ""
  ELSE (IF nodes[1].comp.kind = "text" THEN nodes[1].comp.text ELSE "")
       \o ConcatLeaves(Tail(nodes))

\* C4: when the walk has finished, the texts of the runs in list order
\* concatenate to the texts of the TextSpan leaves in document order.
C4_TextOrderPreserved ==
  Flattened => ConcatRuns(AllRuns(cue_text)) = ConcatLeaves(payload)

\* the innermost voice span enclosing the k-th node
InnermostVoice(k) ==
  CHOOSE j \in EnclosingOf(k, "v") : \A m \in EnclosingOf(k, "v") : m <= j

\* C5: in a payload without terminators, a run holding the text of a TextSpan
\* that voice spans enclose has the annotation of the innermost of them as its
\* voice.
C5_VoiceInnermostWins ==
  (Flattened /\ NoTerminator) =>
    \A k \in TextLeaves :
      EnclosingOf(k, "v") # {} =>
        RunOf(k).voice = Some(payload[InnermostVoice(k)].comp.annotation)

\* the payload is one chain of nested spans with one TextSpan at the bottom
IsChain ==
  /\ Len(payload) >= 2
  /\ NoTerminator
  /\ \A k \in 1..Len(payload) :
       /\ payload[k].depth = k - 1
       /\ (payload[k].comp.kind = "text") = (k = Len(payload))

\* C6: a terminator-free chain of nested spans with one TextSpan at the bottom
\* yields one paragraph with one run: its text is the leaf's, it is bold, italic
\* or underlined for every such span of the chain, holds the annotation of every
\* language span and, under "b", "i", "u", "lang", the classes of every such
\* span, and its voice is that of the chain's innermost voice span.
C6_Coalescing ==
  (Flattened /\ IsChain) =>
    /\ Len(cue_text) = 1
    /\ Len(cue_text[1].items) = 1
    /\ LET run == cue_text[1].items[1]
           n == Len(payload)
       IN /\ run.text = payload[n].comp.text
          /\ \A j \in 1..(n - 1) :
               LET c == payload[j].comp
               IN /\ c.kind = "b" => Bold(run, heap)
                  /\ c.kind = "i" => Italic(run, heap)
                  /\ c.kind = "u" => Underline(run, heap)
                  /\ c.kind = "lang" => c.annotation \in LangOf(run, heap)
                  /\ c.kind \in {"b", "i", "u", "lang"} =>
                       c.classes \subseteq ClassesOf(run, heap, c.kind)
                  /\ (c.kind = "v" /\ j = InnermostVoice(n)) =>
                       run.voice = Some(c.annotation)

\* BoldSpan[ItalicSpan[TextSpan]] has been flattened to one bold italic run
C6_Witness ==
  /\ Flattened
  /\ IsChain
  /\ Len(payload) = 3
  /\ payload[1].comp.kind = "b"
  /\ payload[2].comp.kind = "i"
  /\ Len(cue_text) = 1
  /\ Len(cue_text[1].items) = 1
  /\ Bold(cue_text[1].items[1], heap)
  /\ Italic(cue_text[1].items[1], heap)
  /\ cue_text[1].items[1].text = payload[3].comp.text

\* the run at parent_idx in the paragraph of the innermost call has text
ActiveHasText ==
  /\ pc = "flatten"
  /\ LET items == cue_text[Top(Walk).par].items
     IN /\ items # <<>>
        /\ InRange(items, parent_idx)
        /\ items[At(items, parent_idx)].text # ""

\* C7: a span entered while the active run (par.items[parent_idx], par being the
\* paragraph of the call that iterates) has text appends one run to the end of
\* that paragraph; the new run has empty text, the active run's voice, flags,
\* classes and languages plus the span's attribute, and no earlier run changes.
C7_BranchOnTextBoundary ==
  [][(/\ ActiveHasText
      /\ pc' = "flatten"
      /\ Len(payload') = Len(payload) + 1
      /\ payload'[Len(payload')].comp.kind \in SpanKinds) =>
       LET p == Top(Walk).par
           c == payload'[Len(payload')].comp
           old == cue_text[p].items
           new == cue_text'[p].items
           active == RunValue(old[At(old, parent_idx)], heap)
           added == RunValue(new[Len(new)], heap')
       IN /\ Len(new) = Len(old) + 1
          /\ \A i \in 1..Len(old) :
               RunValue(new[i], heap') = RunValue(old[i], heap)
          /\ added.text = ""
          /\ added.bold = (active.bold \/ c.kind = "b")
          /\ added.italic = (active.italic \/ c.kind = "i")
          /\ added.underline = (active.underline \/ c.kind = "u")
          /\ added.voice
               = (IF c.kind = "v" THEN Some(c.annotation) ELSE active.voice)
          /\ added.lang
               = active.lang
                   \cup (IF c.kind = "lang" THEN {c.annotation} ELSE {})
          /\ \A key \in {"b", "i", "u", "lang"} :
               added.classes[key]
                 = active.classes[key]
                     \cup (IF c.kind = key THEN c.classes ELSE {})
          /\ active.classes["v"] \subseteq added.classes["v"]]_vars

\* [TextSpan 'a', BoldSpan[TextSpan 'b']] has been flattened to one paragraph
\* with the runs 'a', not bold, and 'b', bold
C7_Witness ==
  /\ Flattened
  /\ Len(payload) = 3
  /\ payload[1].comp.kind = "text" /\ payload[1].depth = 0
  /\ payload[2].comp.kind = "b" /\ payload[2].depth = 0
  /\ payload[3].comp.kind = "text" /\ payload[3].depth = 1
  /\ payload[1].comp.text = "a" /\ payload[3].comp.text = "b"
  /\ Len(cue_text) = 1
  /\ Len(cue_text[1].items) = 2
  /\ cue_text[1].items[1].text = "a" /\ ~Bold(cue_text[1].items[1], heap)
  /\ cue_text[1].items[2].text = "b" /\ Bold(cue_text[1].items[2], heap)

\* C8: the paragraph loop appends nothing for a paragraph without runs, one
\* text item without parent for a paragraph with one run, and for n >= 2 runs
\* one group followed by n text items, one per run in run order, each with
\* that group as parent.
C8_EmissionShape ==
  [][(pc = "emit" /\ par_i <= Len(cue_text)) =>
       LET items == cue_text[par_i].items
           n == Len(items)
           new == SubSeq(doc', Len(doc) + 1, Len(doc'))
           group == Len(doc) + 1
       IN /\ Len(doc') >= Len(doc)
          /\ SubSeq(doc', 1, Len(doc)) = doc
          /\ n = 0 => new = <<>>
          /\ n = 1 => /\ Len(new) = 1
                      /\ new[1].label = "text"
                      /\ new[1].parent = None
                      /\ new[1].text = items[1].text
                      /\ new[1].src[3] = 1
          /\ n >= 2 => /\ Len(new) = n + 1
                       /\ new[1].label = "inline"
                       /\ new[1].parent = None
                       /\ \A i \in 1..n :
                            /\ new[i + 1].label = "text"
                            /\ new[i + 1].parent = Some(group)
                            /\ new[i + 1].text = items[i].text
                            /\ new[i + 1].src[3] = i]_vars

\* a cue of two runs has been emitted as a group with two children, then a cue
\* whose paragraphs hold one run and no run as one text item
C8_Witness ==
  /\ pc = "emit"
  /\ par_i > Len(cue_text)
  /\ Len(cue_text) = 2
  /\ Len(cue_text[1].items) = 1
  /\ cue_text[2].items = <<>>
  /\ Len(doc) = 4
  /\ doc[1].label = "inline"
  /\ doc[2].parent = Some(1) /\ doc[3].parent = Some(1)
  /\ doc[4].label = "text" /\ doc[4].parent = None

\* (cue, paragraph, run) a precedes b in input order
Precedes(a, b) ==
  \/ a[1] < b[1]
  \/ a[1] = b[1] /\ a[2] < b[2]
  \/ a[1] = b[1] /\ a[2] = b[2] /\ a[3] < b[3]

WalkView(w) ==
  [pars |-> [p \in 1..Len(w.cue_text) |-> ParValue(w.cue_text[p], w.heap)],
   parent_idx |-> w.parent_idx,
   stack |-> w.stack,
   raised |-> w.raised]

\* C10: while a cue is flattened and emitted, the paragraphs, the runs with
\* their attributes and the cursor are those of a converter that is given the
\* same cue as its first one: nothing of the earlier cues is left in them.
C10_NoStateAcrossCues ==
  pc \in {"flatten", "emit", "raised"} => WalkView(Walk) = WalkView(solo)

\* the second cue has been flattened to runs after the first was emitted
C10_Witness ==
  /\ pc = "emit"
  /\ nblocks = 2
  /\ doc # <<>>
  /\ Len(payload) = 2
  /\ Len(cue_text) = 2
  /\ cue_text[1].items # <<>>

\* C11: when the payload VoiceSpan(classes C)[TextSpan t] with non-empty C has
\* been flattened, the run that holds t has every class of C under "v".
C11_VoiceClassesUnderV ==
  (/\ Flattened
   /\ Len(payload) = 2
   /\ payload[1].comp.kind = "v" /\ payload[1].depth = 0
   /\ payload[1].comp.classes # {}
   /\ payload[2].comp.kind = "text" /\ payload[2].depth = 1) =>
    payload[1].comp.classes \subseteq ClassesOf(RunOf(2), heap, "v")

\* the mutable objects a run refers to: its Formatting, its classes dict, the
\* sets in that dict and its lang set
RunRefs(item, h) ==
  (IF item.formatting = None THEN {} ELSE {item.formatting[1]})
    \cup {item.classes, item.lang}
    \cup { h[item.classes][i].value : i \in 1..Len(h[item.classes]) }

\* C12: during the walk, a run whose text is non-empty stays where it is and
\* keeps its text, voice, flags, class sets and language set in every later
\* step, and no two runs refer to the same mutable object.
C12_CommittedRunsImmutable ==
  [][pc = "flatten" =>
       /\ \A p \in 1..Len(cue_text) :
            \A i \in 1..Len(cue_text[p].items) :
              cue_text[p].items[i].text # "" =>
                /\ p <= Len(cue_text')
                /\ i <= Len(cue_text'[p].items)
                /\ RunValue(cue_text'[p].items[i], heap')
                     = RunValue(cue_text[p].items[i], heap)
       /\ \A p, q \in 1..Len(cue_text') :
            \A i \in 1..Len(cue_text'[p].items) :
              \A j \in 1..Len(cue_text'[q].items) :
                <<p, i>> # <<q, j>> =>
                  RunRefs(cue_text'[p].items[i], heap')
                    \cap RunRefs(cue_text'[q].items[j], heap') = {}]_vars

\* BoldSpan[TextSpan, ItalicSpan[]]: the italic span was entered after the bold
\* run got its text; the run with the text is bold and not italic, the run
\* added for the italic span is bold and italic
C12_Witness ==
  /\ pc \in {"flatten", "emit"}
  /\ Len(payload) = 3
  /\ payload[1].comp.kind = "b" /\ payload[1].depth = 0
  /\ payload[2].comp.kind = "text" /\ payload[2].depth = 1
  /\ payload[3].comp.kind = "i" /\ payload[3].depth = 1
  /\ Len(cue_text) = 1
  /\ Len(cue_text[1].items) = 2
  /\ cue_text[1].items[1].text = payload[2].comp.text
  /\ Bold(cue_text[1].items[1], heap) /\ ~Italic(cue_text[1].items[1], heap)
  /\ cue_text[1].items[2].text = ""
  /\ Bold(cue_text[1].items[2], heap) /\ Italic(cue_text[1].items[2], heap)

\* C13: a TextSpan processed while the active run (par.items[parent_idx]) has
\* text appends no run to the paragraph: its text is added to the active run.
C13_TextNeverBranches ==
  [][(/\ ActiveHasText
      /\ Len(payload') = Len(payload) + 1
      /\ payload'[Len(payload')].comp.kind = "text") =>
       LET p == Top(Walk).par
           old == cue_text[p].items
           new == cue_text'[p].items
           k == At(old, parent_idx)
       IN /\ Len(new) = Len(old)
          /\ new[k].text = old[k].text \o payload'[Len(payload')].comp.text]_vars

\* C14: in a payload without terminators, the run that holds the text of a
\* TextSpan is bold, italic or underlined for every enclosing span of that
\* kind, has the annotation of every enclosing language span in its languages
\* and, under "b", "i", "u", "lang", every class of every enclosing span of
\* that kind.
C14_InheritanceDownNestedSpans ==
  (Flattened /\ NoTerminator) =>
    \A k \in TextLeaves :
      /\ EnclosingOf(k, "b") # {} => Bold(RunOf(k), heap)
      /\ EnclosingOf(k, "i") # {} => Italic(RunOf(k), heap)
      /\ EnclosingOf(k, "u") # {} => Underline(RunOf(k), heap)
      /\ \A j \in EnclosingOf(k, "lang") :
           payload[j].comp.annotation \in LangOf(RunOf(k), heap)
      /\ \A key \in {"b", "i", "u", "lang"} :
           \A j \in EnclosingOf(k, key) :
             payload[j].comp.classes \subseteq ClassesOf(RunOf(k), heap, key)

\* [TextSpan, LanguageSpan[BoldSpan[TextSpan]]]: the language span was entered
\* by branching from the run of the first text, the bold span by writing onto
\* the empty copy; the second run holds the language, the flag and the classes
\* of both
C14_Witness ==
  /\ Flattened
  /\ Len(payload) = 4
  /\ payload[1].comp.kind = "text" /\ payload[1].depth = 0
  /\ payload[2].comp.kind = "lang" /\ payload[2].depth = 0
  /\ payload[3].comp.kind = "b" /\ payload[3].depth = 1
  /\ payload[4].comp.kind = "text" /\ payload[4].depth = 2
  /\ Len(cue_text) = 1
  /\ Len(cue_text[1].items) = 2
  /\ payload[4].par = 1 /\ payload[4].item = 2
  /\ ~Bold(cue_text[1].items[1], heap)
  /\ LangOf(cue_text[1].items[1], heap) = {}
  /\ Bold(cue_text[1].items[2], heap)
  /\ LangOf(cue_text[1].items[2], heap) = {payload[2].comp.annotation}
  /\ ClassesOf(cue_text[1].items[2], heap, "lang") = payload[2].comp.classes
  /\ ClassesOf(cue_text[1].items[2], heap, "b") = payload[3].comp.classes

\* C15: when a node is processed while the paragraph of the iterating call is
\* one a terminator opened and still has no run, the paragraph gets one run
\* that carries the node's own text or attribute and nothing else: no voice,
\* formatting, classes or languages of the spans that enclose the node.
C15_FreshRunAfterTerminator ==
  [][(/\ pc = "flatten"
      /\ Len(payload') = Len(payload) + 1
      /\ Top(Walk).par >= 2
      /\ cue_text[Top(Walk).par].items = <<>>) =>
       LET p == Top(Walk).par
           n == payload'[Len(payload')]
           c == n.comp
           new == cue_text'[p].items
       IN /\ Len(new) = 1
          /\ n.par = p /\ n.item = 1
          /\ (new[1].formatting = None) = (c.kind \notin {"b", "i", "u"})
          /\ LET r == RunValue(new[1], heap')
             IN /\ r.text = (IF c.kind = "text" THEN c.text ELSE "")
                /\ r.voice = (IF c.kind = "v" THEN Some(c.annotation) ELSE None)
                /\ r.bold = (c.kind = "b")
                /\ r.italic = (c.kind = "i")
                /\ r.underline = (c.kind = "u")
                /\ r.lang = (IF c.kind = "lang" THEN {c.annotation} ELSE {})
                /\ \A key \in {"b", "i", "u", "lang"} :
                     r.classes[key] = (IF c.kind = key THEN c.classes ELSE {})
                /\ r.classes["v"]
                     \subseteq (IF c.kind = "v" THEN c.classes ELSE {})]_vars

\* a span holding [TextSpan + terminator, TextSpan]: the first text is in a run
\* of paragraph 1 with the span's attribute, the second in the only run of
\* paragraph 2, which has no voice, formatting, classes or languages
C15_Witness ==
  /\ pc \in {"flatten", "emit"}
  /\ Len(payload) = 3
  /\ payload[1].comp.kind \in {"b", "i", "u"} /\ payload[1].depth = 0
  /\ payload[2].comp.kind = "text" /\ payload[2].depth = 1
  /\ payload[2].comp.terminator
  /\ payload[3].comp.kind = "text" /\ payload[3].depth = 1
  /\ Len(cue_text) = 2
  /\ Len(cue_text[1].items) = 1 /\ cue_text[1].items[1].formatting # None
  /\ Len(cue_text[2].items) = 1
  /\ cue_text[2].items[1].text = payload[3].comp.text
  /\ cue_text[2].items[1].formatting = None
  /\ cue_text[2].items[1].voice = None
  /\ heap[cue_text[2].items[1].classes] = <<>>
  /\ heap[cue_text[2].items[1].lang] = {}

\* the nodes of the payload that carry a terminator, at any depth
Terminators == { k \in 1..Len(payload) : payload[k].comp.terminator }

\* C16: during the walk the paragraph list never gets shorter and a step adds
\* at most one paragraph at its end; when the walk finishes, the list holds one
\* paragraph more than the payload has nodes with a terminator.
C16_ParagraphCount ==
  [][pc = "flatten" =>
       /\ Len(cue_text') \in {Len(cue_text), Len(cue_text) + 1}
       /\ \A p \in 1..Len(cue_text) :
            Len(cue_text'[p].items) >= Len(cue_text[p].items)
       /\ pc' = "emit" => Len(cue_text') = 1 + Cardinality(Terminators)]_vars

\* a span with a terminator that holds a TextSpan with a terminator and a
\* TextSpan without: three paragraphs
C16_Witness ==
  /\ Flattened
  /\ Len(payload) = 3
  /\ payload[1].comp.kind = "b" /\ payload[1].comp.terminator
  /\ payload[2].depth = 1 /\ payload[2].comp.terminator
  /\ payload[3].depth = 1 /\ ~payload[3].comp.terminator
  /\ Cardinality(Terminators) = 2
  /\ Len(cue_text) = 3
  /\ cue_text[3].items = <<>>
====
